---- MODULE Spec2Model ----
(***************************************************************************)
(* A model of llm_tool_box (src/llm_tool_box/__init__.py): SchemaGenerator *)
(* (name mapping, title purge, function_schema, generate_tools), ToolResult*)
(* and ToolBox (register_tool, register_tools_from_object, process).       *)
(***************************************************************************)
EXTENDS Integers, Sequences, FiniteSets, TLC

VARIABLES
    strict,         \* ToolBox.strict / SchemaGenerator.strict
    name_mappings,  \* ToolBox.name_mappings: sequence of <<fname, sname>>
    tool_registry,  \* ToolBox.tool_registry: name -> [function, param_class]
    tool_schemas,   \* ToolBox.tool_schemas: sequence of tool items
    tool_sets,      \* ToolBox.tool_sets: sequence of objects
    schema_origin,  \* history: the function each item of tool_schemas came from
    all_succeeded,  \* history: no register_tools_from_object call has raised
    d,              \* the dict handed to _recursive_purge_titles (mutated in place)
    op,             \* the last operation and its input
    outcome,        \* what the last operation returned or raised
    invoked         \* the calls of registered functions made by the last operation

vars == <<strict, name_mappings, tool_registry, tool_schemas, tool_sets,
          schema_origin, all_succeeded, d, op, outcome, invoked>>

toolbox_vars == <<strict, name_mappings, tool_registry, tool_schemas, tool_sets,
                  schema_origin, all_succeeded>>

(***************************************************************************)
(* Bounds of the model.                                                    *)
(***************************************************************************)
MaxNodes == 5       \* nodes of a schema tree handed to the purge
MaxArrLen == 1      \* elements of an array node of such a tree
MaxSchemas == 2     \* items of tool_schemas beyond which no object is registered

Range(seq) == { seq[i] : i \in DOMAIN seq }
Min(a, b) == IF a < b THEN a ELSE b

(***************************************************************************)
(* JSON-like trees: a node is a dict, a list or a string.                  *)
(***************************************************************************)
Str(s) == [kind |-> "str", val |-> s]
Map(f) == [kind |-> "map", val |-> f]
Arr(a) == [kind |-> "arr", val |-> a]

IsDict(n) == n.kind = "map"

KeyOrder == <<"properties", "title", "type">>
Keys == {KeyOrder[i] : i \in DOMAIN KeyOrder}

\* the keys of S in KeyOrder
RECURSIVE KeySeq(_, _)
KeySeq(S, i) ==
    IF i > Len(KeyOrder) THEN <<>>
    ELSE (IF KeyOrder[i] \in S THEN <<KeyOrder[i]>> ELSE <<>>) \o KeySeq(S, i + 1)

\* the map with the keys ks (a sequence) and the values vs (a sequence)
ZipMap(ks, vs) ==
    [k \in {ks[i] : i \in DOMAIN ks} |-> vs[CHOOSE i \in DOMAIN ks : ks[i] = k]]

\* T[k] being the set of the trees of k nodes, the sequences of len trees that
\* have n nodes together
RECURSIVE Forests(_, _, _)
Forests(T, n, len) ==
    IF len = 0 THEN (IF n = 0 THEN {<<>>} ELSE {})
    ELSE UNION { { <<t>> \o r : t \in T[k], r \in Forests(T, n - k, len - 1) }
                 : k \in 1..Min(Len(T), n - (len - 1)) }
\* the trees of exactly n nodes, from those of fewer nodes
TreesOfSize(T, n) ==
    (IF n = 1 THEN {Str("s")} ELSE {})
    \cup UNION { { Map(ZipMap(KeySeq(S, 1), vs)) : vs \in Forests(T, n - 1, Cardinality(S)) }
                 : S \in SUBSET Keys }
    \cup UNION { { Arr(a) : a \in Forests(T, n - 1, len) } : len \in 0..MaxArrLen }
\* <<the trees of 1 node, ..., the trees of n nodes>>
RECURSIVE TreeTable(_)
TreeTable(n) ==
    IF n = 0 THEN <<>>
    ELSE LET T == TreeTable(n - 1) IN Append(T, TreesOfSize(T, n))

\* the trees of at most n nodes
TreesUpTo(n) == UNION Range(TreeTable(n))

(***************************************************************************)
(* SchemaGenerator._recursive_purge_titles                                 *)
(***************************************************************************)
RECURSIVE PurgeIntoArrays(_)
PurgeIntoArrays(n) ==
    IF n.kind = "arr" THEN Arr([i \in DOMAIN n.val |-> PurgeIntoArrays(n.val[i])])
    ELSE IF IsDict(n)
    THEN LET keys == DOMAIN n.val
             kept == IF "type" \in keys THEN keys \ {"title"} ELSE keys
         IN  Map([k \in kept |-> PurgeIntoArrays(n.val[k])])
    ELSE n

RECURSIVE _recursive_purge_titles(_)
_recursive_purge_titles(n) ==
    IF IsDict(n)
    THEN LET keys == DOMAIN n.val
             kept == { key \in keys : ~(key = "title" /\ "type" \in keys) }
         IN  Map([key \in kept |-> _recursive_purge_titles(n.val[key])])
    ELSE n

(***************************************************************************)
(* Python values that may be None: None, a str (a concatenation of parts), *)
(* an int, a dict, a list.                                                 *)
(***************************************************************************)
NoneVal == [py |-> "None"]
PyStr(parts) == [py |-> "str", text |-> parts]
PyInt(n) == [py |-> "int", n |-> n]
PyDict(m) == [py |-> "dict", items |-> m]
PyList(a) == [py |-> "list", items |-> a]

\* bool(v) of a value that is None or a str
Truthy(v) == v.py = "str" /\ v.text # <<>>

\* the str held by a string node of a schema tree
NodeToPy(n) == PyStr(IF n.val = "" THEN <<>> ELSE <<n.val>>)

(***************************************************************************)
(* Functions and their parameter classes.                                  *)
(*   params   : the annotations of the declared parameters, in order       *)
(*   doc      : __doc__ as a sequence of lines; <<>> is a falsy __doc__     *)
(*   ret_hint : the 'return' entry of get_type_hints ("unset" when absent) *)
(*   body     : what a call of the function does                           *)
(***************************************************************************)
ModelClass(cname, fields, description) ==
    [cls |-> "model", cname |-> cname, fields |-> fields, description |-> description]
PlainClass == [cls |-> "class", cname |-> "str", fields |-> {}, description |-> NoneVal]
NotAClass == [cls |-> "notclass", cname |-> "List[str]", fields |-> {}, description |-> NoneVal]

\* issubclass(param_class, BaseModel); on a non-class issubclass itself raises TypeError
IsBaseModel(pc) == pc.cls = "model"

Function(name, params, doc, ret_hint, body) ==
    [name |-> name, params |-> params, doc |-> doc, ret_hint |-> ret_hint, body |-> body]

PrivateNames == {"_hidden"}
\* name.startswith('_')
StartsWithUnderscore(name) == name \in PrivateNames

\* the order inspect.getmembers lists members in (sorted by name)
NameOrder == <<"_hidden", "lookup", "search">>
InternalNames == {"lookup", "search"}
ExternalNames == {"search", "find"}
\* the pairs the name-mapping tables are built from
MappingPairs == {<<"lookup", "search">>, <<"search", "find">>, <<"lookup", "find">>}
\* the name of a call that carries no name
NoName == "<None>"

FieldOrder == <<"limit", "query">>
\* the string nodes of the field names of S, in FieldOrder
RECURSIVE FieldSeq(_, _)
FieldSeq(S, i) ==
    IF i > Len(FieldOrder) THEN <<>>
    ELSE (IF FieldOrder[i] \in S THEN <<Str(FieldOrder[i])>> ELSE <<>>) \o FieldSeq(S, i + 1)

(***************************************************************************)
(* pydantic: the schema export and the validated construction.             *)
(***************************************************************************)
\* param_class.model_json_schema()
ModelJsonSchema(pc) ==
    LET props == Map([f \in pc.fields |-> Map([title |-> Str("Field"), type |-> Str("string")])])
        base == [title |-> Str(pc.cname), type |-> Str("object"), properties |-> props]
        req == IF pc.fields = {} THEN base
               ELSE [required |-> Arr(FieldSeq(pc.fields, 1))] @@ base
    IN  IF pc.description = NoneVal THEN Map(req)
        ELSE Map([description |-> Str(IF pc.description.text = <<>> THEN ""
                                      ELSE pc.description.text[1])] @@ req)

ConformsByPresence(pc, tool_args) ==
    /\ tool_args.py = "dict"
    /\ \A f \in pc.fields : f \in DOMAIN tool_args.items

\* does param_class(**tool_args) validate
Conforms(pc, tool_args) ==
    /\ tool_args.py = "dict"
    /\ \A f \in pc.fields : f \in DOMAIN tool_args.items /\ tool_args.items[f].py = "str"

\* the parameter object param_class(**tool_args) builds (extra keys are ignored)
Construct(pc, tool_args) == [f \in pc.fields |-> tool_args.items[f]]

(***************************************************************************)
(* docstring_parser.parse(doc).short_description                           *)
(***************************************************************************)
SectionTitles == {"Args:", "Returns:"}
ShortDescription(doc) ==
    IF doc = <<>> \/ doc[1] \in SectionTitles THEN NoneVal ELSE PyStr(<<doc[1]>>)

(***************************************************************************)
(* json: texts are token sequences.                                        *)
(***************************************************************************)
JsonStrings == {"query", "extra", "x"}
Quote(s) == CASE s = "query" -> "\"query\""
              [] s = "extra" -> "\"extra\""
              [] s = "x" -> "\"x\""
IsStringToken(t) == \E s \in JsonStrings : Quote(s) = t
Unquote(t) == CHOOSE s \in JsonStrings : Quote(s) = t
IsValueToken(t) == IsStringToken(t) \/ t = "7"
ValueOf(t) == IF t = "7" THEN PyInt(7) ELSE PyStr(<<Unquote(t)>>)
TokenOf(v) == IF v.py = "int" THEN "7" ELSE Quote(v.text[1])

ArgKeyOrder == <<"extra", "query">>
ArgKeys == {ArgKeyOrder[i] : i \in DOMAIN ArgKeyOrder}
ArgValues == {PyStr(<<"x">>), PyInt(7)}
ArgMappings == { m \in UNION { [S -> ArgValues] : S \in SUBSET ArgKeys } :
                     "extra" \in DOMAIN m => m["extra"] = PyStr(<<"x">>) }

\* json.dumps(m) of a mapping m
RECURSIVE DumpMembers(_, _, _)
DumpMembers(m, i, first) ==
    IF i > Len(ArgKeyOrder) THEN <<>>
    ELSE LET k == ArgKeyOrder[i]
         IN  IF k \in DOMAIN m
             THEN (IF first THEN <<>> ELSE <<",">>) \o <<Quote(k), ":", TokenOf(m[k])>>
                  \o DumpMembers(m, i + 1, FALSE)
             ELSE DumpMembers(m, i + 1, first)
JsonDumps(m) == <<"{">> \o DumpMembers(m, 1, TRUE) \o <<"}">>

\* json.loads(text): [ok |-> TRUE, value |-> v], or ok = FALSE for JSONDecodeError
RECURSIVE LoadMembers(_, _, _)
LoadMembers(text, i, acc) ==
    \* text[i] starts a member; acc holds the members read so far
    IF i + 3 > Len(text) \/ ~IsStringToken(text[i]) \/ text[i + 1] # ":"
       \/ ~IsValueToken(text[i + 2])
    THEN [ok |-> FALSE]
    ELSE LET acc2 == (Unquote(text[i]) :> ValueOf(text[i + 2])) @@ acc
         IN  IF text[i + 3] = "}" /\ i + 3 = Len(text) THEN [ok |-> TRUE, value |-> PyDict(acc2)]
             ELSE IF text[i + 3] = "," THEN LoadMembers(text, i + 4, acc2)
             ELSE [ok |-> FALSE]
JsonLoads(text) ==
    IF text = <<"[", "]">> THEN [ok |-> TRUE, value |-> PyList(<<>>)]
    ELSE IF Len(text) < 2 \/ text[1] # "{" THEN [ok |-> FALSE]
    ELSE IF text = <<"{", "}">> THEN [ok |-> TRUE, value |-> PyDict(<<>>)]
    ELSE LoadMembers(text, 2, <<>>)

RawArguments == { JsonDumps(m) : m \in ArgMappings } \cup { <<"[", "]">>, <<"{">> }

(***************************************************************************)
(* The name-mapping table.                                                 *)
(***************************************************************************)
\* the tables: every order of every subset of the pairs (a repeated pair is never
\* the first match of a lookup)
Tables == { t \in UNION { [1..n -> MappingPairs] : n \in 0..Cardinality(MappingPairs) } :
                \A i, j \in DOMAIN t : i # j => t[i] # t[j] }

UnmappedName(func_name) == func_name

\* SchemaGenerator.func_name_to_schema
func_name_to_schema(func_name) ==
    LET hits == { i \in DOMAIN name_mappings : name_mappings[i][1] = func_name }
    IN  IF hits = {} THEN func_name
        ELSE name_mappings[CHOOSE i \in hits : \A j \in hits : i <= j][2]

LastMatchToFunc(schema_name) ==
    LET hits == { i \in DOMAIN name_mappings : name_mappings[i][2] = schema_name }
    IN  IF hits = {} THEN schema_name
        ELSE name_mappings[CHOOSE i \in hits : \A j \in hits : i >= j][1]

\* ToolBox.schema_name_to_func
schema_name_to_func(schema_name) ==
    LET hits == { i \in DOMAIN name_mappings : name_mappings[i][2] = schema_name }
    IN  IF hits = {} THEN schema_name
        ELSE name_mappings[CHOOSE i \in hits : \A j \in hits : i <= j][1]


(***************************************************************************)
(* Results of a call: a return value or a raised exception.                *)
(***************************************************************************)
Return(v) == [kind |-> "return", value |-> v]
Raise(e) == [kind |-> "raise", exc |-> e]
NoOutcome == [kind |-> "none"]

(***************************************************************************)
(* SchemaGenerator.function_schema                                         *)
(***************************************************************************)
\* lines 57-64: the description of the descriptor
ResolveDescription(params_schema, function) ==
    LET description == IF "description" \in DOMAIN params_schema.val
                       THEN NodeToPy(params_schema.val["description"])
                       ELSE PyStr(<<>>)
    IN  IF function.doc # <<>>
        THEN IF Truthy(description) /\ strict THEN Raise("ValueError")
             ELSE Return(ShortDescription(function.doc))
        ELSE Return(description)

function_schema(function) ==
    LET parameters == function.params
    IN  IF Len(parameters) # 1 THEN Raise("TypeError")
        ELSE LET param_class == parameters[1]
             IN  IF ~IsBaseModel(param_class) THEN Raise("TypeError")
                 ELSE LET purged == _recursive_purge_titles(ModelJsonSchema(param_class))
                          description == ResolveDescription(purged, function)
                          params_schema ==
                              Map([k \in DOMAIN purged.val \ {"description"} |-> purged.val[k]])
                          schema == [name |-> func_name_to_schema(function.name),
                                     description |-> description.value]
                      IN  IF description.kind = "raise" THEN description
                          ELSE IF param_class.fields # {}
                          THEN Return([parameters |-> params_schema] @@ schema)
                          ELSE Return(schema)

\* SchemaGenerator.generate_tools: the loop from the i-th function on
RECURSIVE GenerateToolsFrom(_, _, _)
GenerateToolsFrom(functions, i, tools_array) ==
    IF i > Len(functions) THEN Return(tools_array)
    ELSE LET function == functions[i]
             return_type == function.ret_hint
         IN  IF return_type # "unset" /\ return_type # "str" THEN Raise("ValueError")
             ELSE LET fs == function_schema(function)
                  IN  IF fs.kind = "raise" THEN fs
                      ELSE GenerateToolsFrom(functions, i + 1,
                               Append(tools_array, [type |-> "function", function |-> fs.value]))

generate_tools(functions) == GenerateToolsFrom(functions, 1, <<>>)

(***************************************************************************)
(* ToolBox                                                                 *)
(***************************************************************************)
ToolResult(tool_name, tool_args, observations, error) ==
    [tool_name |-> tool_name, tool_args |-> tool_args,
     observations |-> observations, error |-> error]

RegisterAnyOneParameter(reg, function) ==
    IF Len(function.params) # 1 THEN [raised |-> TRUE, exc |-> "TypeError", registry |-> reg]
    ELSE [raised |-> FALSE,
          registry |-> (function.name :>
                           [function |-> function, param_class |-> function.params[1]])
                       @@ reg]

\* ToolBox.register_tool on the registry reg
register_tool(reg, function) ==
    LET parameters == function.params
    IN  IF Len(parameters) # 1 THEN [raised |-> TRUE, exc |-> "TypeError", registry |-> reg]
        ELSE LET param_class == parameters[1]
             IN  IF ~IsBaseModel(param_class)
                 THEN [raised |-> TRUE, exc |-> "TypeError", registry |-> reg]
                 ELSE [raised |-> FALSE,
                       registry |-> (function.name :>
                                        [function |-> function, param_class |-> param_class])
                                    @@ reg]

\* ToolBox.register_tools_from_object, the loop over the members from the i-th on
RECURSIVE RegisterMembers(_, _, _, _)
RegisterMembers(obj, i, reg, functions) ==
    IF i > Len(NameOrder) THEN [raised |-> FALSE, registry |-> reg, functions |-> functions]
    ELSE LET name == NameOrder[i]
         IN  IF name \notin DOMAIN obj \/ StartsWithUnderscore(name)
             THEN RegisterMembers(obj, i + 1, reg, functions)
             ELSE LET r == register_tool(reg, obj[name])
                  IN  IF r.raised THEN r
                      ELSE RegisterMembers(obj, i + 1, r.registry, Append(functions, obj[name]))

\* the state register_tools_from_object(obj) leaves and its outcome
register_tools_from_object(reg, schemas, obj) ==
    LET r == RegisterMembers(obj, 1, reg, <<>>)
    IN  IF r.raised
        THEN [registry |-> r.registry, schemas |-> schemas, added |-> <<>>,
              outcome |-> Raise(r.exc)]
        ELSE LET tools == generate_tools(r.functions)
             IN  IF tools.kind = "raise"
                 THEN [registry |-> r.registry, schemas |-> schemas, added |-> <<>>,
                       outcome |-> tools]
                 ELSE [registry |-> r.registry, schemas |-> schemas \o tools.value,
                       added |-> r.functions, outcome |-> Return(NoneVal)]

ReturnValueDropped(function, param) == NoneVal

\* what a call function(param) of a registered function returns
ReturnValue(function, param) ==
    IF function.body = "returns_none" THEN NoneVal
    ELSE [py |-> "str", text |-> <<"result of", function.name>>, arg |-> param]

\* ToolBox._process_unpacked: the outcome and the calls made
_process_unpacked(tool_name, tool_args) ==
    LET function_name == schema_name_to_func(tool_name)
    IN  IF function_name = NoName
        THEN [outcome |-> Return(ToolResult(tool_name, tool_args, NoneVal,
                                 PyStr(<<"Unknown tool name: ", tool_name>>))),
              invoked |-> <<>>]
        ELSE IF function_name \notin DOMAIN tool_registry
        THEN [outcome |-> Raise("KeyError"), invoked |-> <<>>]
        ELSE LET function == tool_registry[function_name].function
                 param_class == tool_registry[function_name].param_class
             IN  IF tool_args.py # "dict" THEN [outcome |-> Raise("TypeError"), invoked |-> <<>>]
                 ELSE IF ~Conforms(param_class, tool_args)
                 THEN [outcome |-> Raise("ValidationError"), invoked |-> <<>>]
                 ELSE LET param == Construct(param_class, tool_args)
                          call == <<[function |-> function, param |-> param]>>
                      IN  IF function.body = "raises"
                          THEN [outcome |-> Raise("ToolError"), invoked |-> call]
                          ELSE [outcome |-> Return(ToolResult(tool_name, tool_args,
                                                ReturnValue(function, param), NoneVal)),
                                invoked |-> call]

\* ToolBox.process
process(function_call) ==
    LET loaded == JsonLoads(function_call.arguments)
    IN  IF ~loaded.ok THEN [outcome |-> Raise("JSONDecodeError"), invoked |-> <<>>]
        ELSE _process_unpacked(function_call.name, loaded.value)


(***************************************************************************)
(* The inputs the operations are tried on.                                 *)
(***************************************************************************)
QueryModel == ModelClass("Query", {"query"}, NoneVal)
EmptyModel == ModelClass("Empty", {}, NoneVal)
DescribedModel == ModelClass("Params", {"query"}, PyStr(<<"D">>))
Models == { ModelClass("Params", fields, description) :
                fields \in {{}, {"query"}},
                description \in {NoneVal, PyStr(<<>>), PyStr(<<"D">>)} }
Signatures == {<<>>, <<QueryModel, QueryModel>>, <<PlainClass>>, <<NotAClass>>}
                  \cup { <<pc>> : pc \in Models }
ShortDoc == <<"Look it up.", "Args:">>
Docs == {<<>>, <<"Args:">>, ShortDoc}

\* functions for schema generation and registration
SchemaFuncs == { Function("lookup", sig, doc, "str", "returns_str") :
                     sig \in Signatures, doc \in Docs }
\* functions for dispatch
DispatchFuncs == { Function(name, <<pc>>, <<>>, "unset", body) :
                       name \in InternalNames, pc \in {QueryModel, EmptyModel},
                       body \in {"returns_str", "returns_none", "raises"} }
\* methods of objects
GoodMethod(name) == Function(name, <<QueryModel>>, ShortDoc, "str", "returns_str")
PlainMethod(name) == Function(name, <<EmptyModel>>, <<>>, "unset", "returns_none")
NoParamMethod(name) == Function(name, <<>>, <<>>, "unset", "returns_str")
MethodsNamed(name) ==
    IF StartsWithUnderscore(name)
    THEN {GoodMethod(name), NoParamMethod(name)}
    ELSE {GoodMethod(name), NoParamMethod(name),
          Function(name, <<DescribedModel>>, ShortDoc, "str", "returns_str"),
          Function(name, <<QueryModel>>, ShortDoc, "int", "returns_str")}
MemberNames == {NameOrder[i] : i \in DOMAIN NameOrder}
Methods == UNION { MethodsNamed(name) : name \in MemberNames }
\* an object: its bound methods by name
Objects == { obj \in UNION { [S -> Methods] : S \in SUBSET MemberNames } :
                 \A name \in DOMAIN obj : obj[name].name = name }
PublicNames(obj) == { name \in DOMAIN obj : ~StartsWithUnderscore(name) }

\* objects of valid tools, and one whose registration raises
ToolObjects == { obj \in UNION { [S -> { GoodMethod(name) : name \in InternalNames }
                                          \cup { PlainMethod(name) : name \in InternalNames }]
                                    : S \in SUBSET InternalNames } :
                    \A name \in DOMAIN obj : obj[name].name = name }
                   \cup { [search |-> NoParamMethod("search")] }

CallNames == InternalNames \cup ExternalNames \cup {"does_not_exist", NoName}
Calls == [name : CallNames, arguments : RawArguments]
ToolCalls == { c \in Calls : c.name # NoName /\ "\"extra\"" \notin Range(c.arguments) }

(***************************************************************************)
(* The state after construction.                                           *)
(***************************************************************************)
\* the empty table and the table of one alias
AliasTables == { t \in Tables : t = <<>> \/ t = << <<"lookup", "search">> >> }

\* ToolBox.__init__ with the defaults for tool_registry, tool_schemas, tool_sets
InitWith(tables) ==
    /\ strict \in BOOLEAN
    /\ name_mappings \in tables
    /\ tool_registry = <<>>
    /\ tool_schemas = <<>>
    /\ tool_sets = <<>>
    /\ schema_origin = <<>>
    /\ all_succeeded = TRUE
    /\ d = Str("s")
    /\ op = [name |-> "__init__"]
    /\ outcome = NoOutcome
    /\ invoked = <<>>

Init == InitWith(Tables)

\* ToolBox.toolbox_from_object: a new instance, when the registration does not raise
InitFromObject ==
    /\ strict \in BOOLEAN
    /\ name_mappings \in AliasTables
    /\ \E obj \in Objects :
          LET r == register_tools_from_object(<<>>, <<>>, obj)
          IN  /\ r.outcome.kind = "return"
              /\ tool_registry = r.registry
              /\ tool_schemas = r.schemas
              /\ schema_origin = r.added
              /\ tool_sets = <<obj>>
              /\ op = [name |-> "toolbox_from_object", obj |-> obj]
    /\ all_succeeded = TRUE
    /\ d = Str("s")
    /\ outcome = NoOutcome
    /\ invoked = <<>>

\* a schema tree about to be purged
InitPurge ==
    /\ strict = TRUE
    /\ name_mappings = <<>>
    /\ tool_registry = <<>>
    /\ tool_schemas = <<>>
    /\ tool_sets = <<>>
    /\ schema_origin = <<>>
    /\ all_succeeded = TRUE
    /\ d \in TreesUpTo(MaxNodes)
    /\ op = [name |-> "__init__"]
    /\ outcome = NoOutcome
    /\ invoked = <<>>

(***************************************************************************)
(* The operations.                                                         *)
(***************************************************************************)
PurgeTitles ==
    /\ d' = _recursive_purge_titles(d)
    /\ op' = [name |-> "_recursive_purge_titles", d |-> d]
    /\ outcome' = Return(NoneVal)
    /\ invoked' = <<>>
    /\ UNCHANGED toolbox_vars

FunctionSchema(function) ==
    /\ outcome' = function_schema(function)
    /\ op' = [name |-> "function_schema", function |-> function]
    /\ invoked' = <<>>
    /\ UNCHANGED <<toolbox_vars, d>>

RegisterTool(function) ==
    LET r == register_tool(tool_registry, function)
    IN  /\ tool_registry' = r.registry
        /\ outcome' = IF r.raised THEN Raise(r.exc) ELSE Return(NoneVal)
        /\ op' = [name |-> "register_tool", function |-> function]
        /\ invoked' = <<>>
        /\ UNCHANGED <<strict, name_mappings, tool_schemas, tool_sets,
                       schema_origin, all_succeeded, d>>

RegisterToolsFromObject(obj) ==
    /\ Len(tool_schemas) + Cardinality(PublicNames(obj)) <= MaxSchemas
    /\ LET r == register_tools_from_object(tool_registry, tool_schemas, obj)
       IN  /\ tool_registry' = r.registry
           /\ tool_schemas' = r.schemas
           /\ schema_origin' = schema_origin \o r.added
           /\ all_succeeded' = (all_succeeded /\ r.outcome.kind = "return")
           /\ outcome' = r.outcome
    /\ op' = [name |-> "register_tools_from_object", obj |-> obj]
    /\ invoked' = <<>>
    /\ UNCHANGED <<strict, name_mappings, tool_sets, d>>

ProcessCaching(function_call) ==
    LET r == process(function_call)
        function_name == schema_name_to_func(function_call.name)
    IN  /\ outcome' = r.outcome
        /\ invoked' = r.invoked
        /\ op' = [name |-> "process", call |-> function_call]
        /\ tool_registry' = IF function_name \in DOMAIN tool_registry
                            THEN (function_call.name :> tool_registry[function_name])
                                 @@ tool_registry
                            ELSE tool_registry
        /\ UNCHANGED <<strict, name_mappings, tool_schemas, tool_sets,
                       schema_origin, all_succeeded, d>>

Process(function_call) ==
    LET r == process(function_call)
    IN  /\ outcome' = r.outcome
        /\ invoked' = r.invoked
        /\ op' = [name |-> "process", call |-> function_call]
        /\ UNCHANGED <<toolbox_vars, d>>

(***************************************************************************)
(* The specifications.                                                     *)
(***************************************************************************)
\* registration of single functions and dispatch
Next ==
    \/ \E function \in DispatchFuncs : RegisterTool(function)
    \/ \E function_call \in Calls : Process(function_call)
Spec == Init /\ [][Next]_vars

\* schema generation and registration of single functions
NextSchema ==
    \/ \E function \in SchemaFuncs : FunctionSchema(function)
    \/ \E function \in SchemaFuncs : RegisterTool(function)
SpecSchema == Init /\ [][NextSchema]_vars

\* registration of objects, on an instance made by either constructor
NextObject == \E obj \in Objects : RegisterToolsFromObject(obj)
InitObject == InitWith(AliasTables) \/ InitFromObject
SpecObject == InitObject /\ [][NextObject]_vars

\* registration of objects of tools and dispatch
NextTools ==
    \/ \E obj \in ToolObjects : RegisterToolsFromObject(obj)
    \/ \E function_call \in ToolCalls : Process(function_call)
SpecTools == Init /\ [][NextTools]_vars

\* the title purge
NextPurge == PurgeTitles
SpecPurge == InitPurge /\ [][NextPurge]_vars

(***************************************************************************)
(* The claims.                                                             *)
(***************************************************************************)
Populated(v) == v # NoneVal
ProcessDone == op.name = "process"
\* the mapping m does not conform to the parameter model pc
Nonconforming(pc, m) == \E f \in pc.fields : f \notin DOMAIN m \/ m[f].py # "str"

\* C1: a call whose name resolves to a name without a registry entry returns a
\* ToolResult with the error "Unknown tool name: <name>" and no observations,
\* and raises nothing
C1_UnknownToolReported ==
    ( /\ ProcessDone
      /\ op.call.name # NoName
      /\ JsonLoads(op.call.arguments).ok
      /\ JsonLoads(op.call.arguments).value.py = "dict"
      /\ schema_name_to_func(op.call.name) \notin DOMAIN tool_registry )
    => /\ outcome.kind = "return"
       /\ outcome.value.error = PyStr(<<"Unknown tool name: ", op.call.name>>)
       /\ outcome.value.observations = NoneVal

\* C2: with f registered under n and <<n, e>> the first pair of the table for e,
\* processing the call of e with the JSON of a conforming mapping m invokes f once
\* with the parameter object built from m and, f returning, returns the ToolResult
\* of e, m, f's return value and no error
C2_RoundTrip ==
    ProcessDone =>
        \A m \in ArgMappings, n \in DOMAIN tool_registry, i \in DOMAIN name_mappings :
            LET f == tool_registry[n].function
                pc == tool_registry[n].param_class
                param == [fld \in pc.fields |-> m[fld]]
            IN  ( /\ op.call.arguments = JsonDumps(m)
                  /\ name_mappings[i] = <<n, op.call.name>>
                  /\ \A j \in 1..(i - 1) : name_mappings[j][2] # op.call.name
                  /\ ~Nonconforming(pc, m) )
                => /\ invoked = <<[function |-> f, param |-> param]>>
                   /\ f.body # "raises" =>
                          outcome = Return(ToolResult(op.call.name, PyDict(m),
                                               ReturnValue(f, param), NoneVal))

C2_Witness ==
    /\ ProcessDone
    /\ outcome.kind = "return"
    /\ Len(name_mappings) >= 2
    /\ name_mappings[1][2] = op.call.name
    /\ name_mappings[2][2] = op.call.name
    /\ name_mappings[2][1] \in DOMAIN tool_registry
    /\ Len(invoked) = 1
    /\ invoked[1].function.name = name_mappings[1][1]
    /\ invoked[1].param = [query |-> PyStr(<<"x">>)]
    /\ Populated(outcome.value.observations)

\* C3: when the name resolves to a registered function and the parsed mapping does
\* not conform to its parameter model, process raises ValidationError, returns no
\* ToolResult and does not invoke the function
C3_ValidationPropagates ==
    ( /\ ProcessDone
      /\ JsonLoads(op.call.arguments).ok
      /\ JsonLoads(op.call.arguments).value.py = "dict"
      /\ schema_name_to_func(op.call.name) \in DOMAIN tool_registry
      /\ Nonconforming(tool_registry[schema_name_to_func(op.call.name)].param_class,
                       JsonLoads(op.call.arguments).value.items) )
    => outcome = Raise("ValidationError") /\ invoked = <<>>

C3_Witness ==
    /\ ProcessDone
    /\ outcome = Raise("ValidationError")
    /\ op.call.arguments = JsonDumps([query |-> PyInt(7)])

\* C5: a process step changes neither the registry nor the stored descriptors
C5_ProcessReadOnly ==
    [][op'.name = "process" =>
          tool_registry' = tool_registry /\ tool_schemas' = tool_schemas]_vars

C5_Witness ==
    /\ ProcessDone
    /\ tool_schemas # <<>>
    /\ tool_registry # <<>>
    /\ outcome.kind = "raise"
    /\ op.call.name \in DOMAIN tool_registry
    /\ schema_name_to_func(op.call.name) \in DOMAIN tool_registry

\* C6 as stated: every ToolResult process returns has exactly one of observations
\* and error populated
C6_ExactlyOne ==
    (ProcessDone /\ outcome.kind = "return")
    => (Populated(outcome.value.observations) # Populated(outcome.value.error))

\* C6 as amended: every ToolResult process returns has at most one of observations
\* and error populated, and neither exactly when the invoked function returned None
C6_AtMostOne ==
    (ProcessDone /\ outcome.kind = "return")
    => /\ ~(Populated(outcome.value.observations) /\ Populated(outcome.value.error))
       /\ (~Populated(outcome.value.observations) /\ ~Populated(outcome.value.error))
          <=> (Len(invoked) = 1 /\ invoked[1].function.body = "returns_none")

C6_Witness ==
    /\ ProcessDone
    /\ outcome.kind = "return"
    /\ Len(invoked) = 1
    /\ invoked[1].function.ret_hint = "unset"
    /\ ~Populated(outcome.value.observations)
    /\ ~Populated(outcome.value.error)


\* C4: the invariant on functions, at registration and at schema generation
SatisfiesInvariant(function) ==
    Len(function.params) = 1 /\ function.params[1].cls = "model"
C4_Rejected ==
    (op.name \in {"register_tool", "function_schema"} /\ ~SatisfiesInvariant(op.function))
    => outcome = Raise("TypeError")
C4_RegistryValid ==
    \A name \in DOMAIN tool_registry :
        /\ SatisfiesInvariant(tool_registry[name].function)
        /\ tool_registry[name].param_class = tool_registry[name].function.params[1]
        /\ tool_registry[name].function.name = name
C4_FailureKeepsRegistry ==
    (op'.name = "register_tool" /\ outcome'.kind = "raise") => tool_registry' = tool_registry
\* C4: for a function that does not declare exactly one parameter of a structured
\* model type, register_tool and function_schema raise the invariant error; a
\* register_tool that raises leaves the registry as it was; every registry entry
\* holds a function of one structured-model parameter with that model type
C4_InvariantEnforced ==
    [](C4_Rejected /\ C4_RegistryValid) /\ [][C4_FailureKeepsRegistry]_vars

C4_Witness ==
    /\ op.name = "register_tool"
    /\ Len(op.function.params) = 1
    /\ op.function.params[1].cls = "class"
    /\ outcome = Raise("TypeError")
    /\ tool_registry # <<>>

\* C7: the description of the descriptor function_schema builds
C7_DescriptionResolution ==
    (op.name = "function_schema" /\ SatisfiesInvariant(op.function))
    => LET fromModel == op.function.params[1].description
           fromDoc == ShortDescription(op.function.doc)
           both == Truthy(fromModel) /\ Truthy(fromDoc)
       IN  /\ strict => (outcome = Raise("ValueError") <=> both)
           /\ ~strict => outcome.kind = "return"
           /\ (~strict /\ both) => outcome.value.description = fromDoc
           /\ (Truthy(fromModel) /\ ~Truthy(fromDoc))
                  => outcome.kind = "return" /\ outcome.value.description = fromModel
           /\ (~Truthy(fromModel) /\ Truthy(fromDoc))
                  => outcome.kind = "return" /\ outcome.value.description = fromDoc

\* C8: a register_tools_from_object(obj) that returns leaves an entry for every
\* public method of obj and none new for a private one, appends one tool item per
\* public method to the stored descriptors, and leaves obj in tool_sets
C8_ObjectRegistered ==
    [][(op'.name = "register_tools_from_object" /\ outcome'.kind = "return")
       => LET obj == op'.obj
              public == PublicNames(obj)
          IN  /\ \A name \in public :
                     name \in DOMAIN tool_registry' /\ tool_registry'[name].function = obj[name]
              /\ \A name \in DOMAIN obj \ public :
                     name \in DOMAIN tool_registry' => name \in DOMAIN tool_registry
              /\ Len(tool_schemas') = Len(tool_schemas) + Cardinality(public)
              /\ SubSeq(tool_schemas', 1, Len(tool_schemas)) = tool_schemas
              /\ \A i \in (Len(tool_schemas) + 1)..Len(tool_schemas') :
                     /\ tool_schemas'[i].type = "function"
                     /\ \E name \in public :
                            Return(tool_schemas'[i].function) = function_schema(obj[name])
              /\ obj \in Range(tool_sets')
      ]_vars

(***************************************************************************)
(* C9: paths of a tree. A step takes the value of a key of a dict or the   *)
(* element at an index of a list.                                          *)
(***************************************************************************)
KeyStep(k) == [t |-> "key", key |-> k, idx |-> 0]
IdxStep(i) == [t |-> "idx", key |-> "", idx |-> i]

RECURSIVE Paths(_)
Paths(n) ==
    {<<>>} \cup
    (IF n.kind = "map"
     THEN UNION { { <<KeyStep(k)>> \o p : p \in Paths(n.val[k]) } : k \in DOMAIN n.val }
     ELSE IF n.kind = "arr"
     THEN UNION { { <<IdxStep(i)>> \o p : p \in Paths(n.val[i]) } : i \in DOMAIN n.val }
     ELSE {})

RECURSIVE NodeAt(_, _)
NodeAt(n, p) ==
    IF p = <<>> THEN n
    ELSE NodeAt(n.val[IF p[1].t = "key" THEN p[1].key ELSE p[1].idx], Tail(p))

\* p is the "title" key of a dict that has a "type" key and is reached from the
\* root through values of dict keys only
TitleToRemove(tree, p) ==
    /\ p # <<>>
    /\ p[Len(p)] = KeyStep("title")
    /\ \A j \in DOMAIN p : p[j].t = "key"
    /\ "type" \in DOMAIN NodeAt(tree, SubSeq(p, 1, Len(p) - 1)).val

\* C9: the purge removes exactly the "title" keys of the dicts that have a "type"
\* key and are reached through dict values only, and leaves all else as it was
C9_PurgeExact ==
    op.name = "_recursive_purge_titles"
    => /\ Paths(d) = { p \in Paths(op.d) :
                          \A k \in 1..Len(p) : ~TitleToRemove(op.d, SubSeq(p, 1, k)) }
       /\ \A p \in Paths(d) :
              /\ NodeAt(d, p).kind = NodeAt(op.d, p).kind
              /\ NodeAt(d, p).kind = "str" => NodeAt(d, p).val = NodeAt(op.d, p).val

C9_Witness ==
    /\ op.name = "_recursive_purge_titles"
    /\ op.d.kind = "map"
    /\ "properties" \in DOMAIN op.d.val
    /\ op.d.val["properties"].kind = "map"
    /\ {"title", "type"} \subseteq DOMAIN op.d.val["properties"].val
    /\ DOMAIN d.val["properties"].val = {"type"}

(***************************************************************************)
(* C10: descriptors and dispatch                                           *)
(***************************************************************************)
TableInjective ==
    \A i, j \in DOMAIN name_mappings :
        i # j => /\ name_mappings[i][1] # name_mappings[j][1]
                 /\ name_mappings[i][2] # name_mappings[j][2]
DistinctOrigins ==
    \A i, j \in DOMAIN schema_origin : i # j => schema_origin[i].name # schema_origin[j].name
\* no external name of the table is the name of a registered function that the
\* table has no pair for
NoShadowedFunction ==
    \A i \in DOMAIN schema_origin :
        \/ \E j \in DOMAIN name_mappings : name_mappings[j][1] = schema_origin[i].name
        \/ \A j \in DOMAIN name_mappings : name_mappings[j][2] # schema_origin[i].name
\* processing the name of a stored descriptor with conforming arguments invokes
\* the function the descriptor was generated from
DispatchesToOrigin ==
    \A i \in DOMAIN tool_schemas :
        ( /\ tool_schemas[i].function.name = op.call.name
          /\ JsonLoads(op.call.arguments).ok
          /\ JsonLoads(op.call.arguments).value.py = "dict"
          /\ ~Nonconforming(schema_origin[i].params[1],
                            JsonLoads(op.call.arguments).value.items) )
        => /\ Len(invoked) = 1
           /\ invoked[1].function = schema_origin[i]
           /\ outcome.kind = "return"

\* C10 as stated: with a table in which no internal and no external name occurs
\* twice, after successful register_tools_from_object calls on functions of distinct
\* names, processing the name of a stored descriptor with conforming arguments
\* invokes the function the descriptor was generated from
C10_Consistent ==
    (ProcessDone /\ TableInjective /\ all_succeeded /\ DistinctOrigins)
    => DispatchesToOrigin

\* C10 as amended: also, no external name of the table is the name of a registered
\* function that the table has no pair for
C10_ConsistentUnshadowed ==
    (ProcessDone /\ TableInjective /\ all_succeeded /\ DistinctOrigins /\ NoShadowedFunction)
    => DispatchesToOrigin

C10_Witness ==
    /\ ProcessDone
    /\ TableInjective /\ all_succeeded /\ DistinctOrigins /\ NoShadowedFunction
    /\ Len(name_mappings) = 2
    /\ Len(tool_schemas) = 2
    /\ op.call.name = "search"
    /\ tool_schemas[1].function.name = "search"
    /\ Len(invoked) = 1
    /\ invoked[1].function.name = "lookup"
    /\ "search" \in DOMAIN tool_registry

====
